---- MODULE Spec2Model ----
(***************************************************************************)
(* Consultation ingestion pipeline of the stroke-detection backend:        *)
(* create_consultation, update_consultation, delete_consultation and the   *)
(* read endpoints of app/routes/consultations.py and dashboard.py,         *)
(* upload_consultation_image of app/routes/images.py and delete_patient of *)
(* app/routes/patients.py, over the Metadata Store (MongoDB collections)   *)
(* and the Blob Store (GridFS).                                            *)
(*                                                                         *)
(* Handlers are asyncio coroutines: the code between two awaits runs       *)
(* atomically, so every action below is one completed await together with  *)
(* the code that follows it up to the next await.  predict_stroke contains *)
(* no await and therefore runs inside the step that calls it.              *)
(*                                                                         *)
(* Probabilities are fixed-point numbers in units of 1/One; a mean is the  *)
(* exact rational [num, den].  ObjectIds are naturals (one sequence per collection), and str(ObjectId)   *)
(* is the tagged pair <<"oid", n>>.                                        *)
(***************************************************************************)
EXTENDS Integers, Sequences, FiniteSets, TLC

\* ------------------------------------------------------------ bounds
MaxImages == 2

\* ------------------------------------------------- program constants
One == 10000
Half == 5000
OPTIMAL_THRESHOLD == 4469
MaxImageBytes == 10 * 1024 * 1024

\* Scorer outputs the model draws from (0.30, 0.47 and 0.70).
Probs == {3000, 4700, 7000}

\* ------------------------------------------------------------ inputs
ImagePng == <<"image", "png">>
ApplicationPdf == <<"application", "pdf">>

ImageInputs ==
  { [filename |-> "a.png", content_type |-> ImagePng, size |-> MaxImageBytes],
    [filename |-> "", content_type |-> ImagePng, size |-> 1024],
    [filename |-> "c.pdf", content_type |-> ApplicationPdf, size |-> 1024],
    [filename |-> "e.png", content_type |-> ImagePng, size |-> 0],
    [filename |-> "h.png", content_type |-> ImagePng, size |-> MaxImageBytes + 1] }

SeqsUpTo(S, n) == UNION { [1..k -> S] : k \in 0..n }

ImageLists == SeqsUpTo(ImageInputs, MaxImages)

\* Well-formed ObjectId strings of patients; "p1" exists initially.
PatientOids == {"p1", "p2"}
PatientIdInputs == PatientOids \cup {"not-an-oid", " "}
DateInputs == {"2024-01-15", "15/01/2024", " "}
NotesInputs == {"headache"}

\* The requests create_consultation is called with: the well-formed request
\* of every length, and every request with one or two defects (a patient id,
\* date or image that is not the valid one, or no image at all).
Defects(q) ==
  (IF q.patient_id = "p1" THEN 0 ELSE 1)
  + (IF q.date = "2024-01-15" THEN 0 ELSE 1)
  + (IF q.images = <<>> THEN 1 ELSE 0)
  + Cardinality({i \in 1..Len(q.images) : q.images[i].filename # "a.png"})

RequestInputs ==
  { q \in [patient_id : PatientIdInputs, date : DateInputs,
           notes : NotesInputs, images : ImageLists] : Defects(q) <= 2 }

\* ----------------------------------------------------- pure helpers
\* str.strip(): whitespace-only text becomes empty.
Strip(s) == IF s = " " THEN "" ELSE s

\* bson.ObjectId(s) succeeds on well-formed ids only.
IsObjectId(s) == s \in PatientOids

\* datetime.fromisoformat(s) succeeds on ISO dates only.
IsIsoDate(s) == s \in {"2024-01-15", "2024-02-01"}

\* content_type.startswith("image/")
StartsWithImage(ct) == ct # <<>> /\ ct[1] = "image"

\* str(ObjectId) and ObjectId(str)
OidStr(n) == <<"oid", n>>
ParseOid(s) == s[2]

RECURSIVE SumSeq(_)
SumSeq(s) == IF s = <<>> THEN 0 ELSE Head(s) + SumSeq(Tail(s))

NoError == [status |-> 0, detail |-> <<"", "">>]
Err(st, kind, arg) == [status |-> st, detail |-> <<kind, arg>>]

\* An exception that leaves the handler unhandled: the framework's 500.
Unhandled == Err(500, "Internal Server Error", "")

ImageOk(image) == image.filename # "" /\ StartsWithImage(image.content_type)

ImageError(image) ==
  IF image.filename = ""
    THEN Err(400, "All uploaded files must have filenames", "")
    ELSE Err(400, "is not a valid image", image.filename)

\* Image checks that look at the first upload only.
ValidateFirstImageOnly(patient_id, date, images) ==
  IF Strip(patient_id) = "" THEN Err(400, "Patient ID is required", "")
  ELSE IF Strip(date) = "" THEN Err(400, "Date is required", "")
  ELSE IF Len(images) = 0 THEN Err(400, "At least one image is required", "")
  ELSE IF ~ImageOk(images[1]) THEN ImageError(images[1])
  ELSE IF ~IsObjectId(Strip(patient_id))
    THEN Err(400, "Invalid ID format", Strip(patient_id))
  ELSE IF ~IsIsoDate(Strip(date)) THEN Err(400, "Invalid input", "date")
  ELSE NoError

\* create_consultation, the checks made before the first await.
ValidateInputs(patient_id, date, images) ==
  IF Strip(patient_id) = "" THEN Err(400, "Patient ID is required", "")
  ELSE IF Strip(date) = "" THEN Err(400, "Date is required", "")
  ELSE IF Len(images) = 0 THEN Err(400, "At least one image is required", "")
  ELSE IF \E i \in 1..Len(images) : ~ImageOk(images[i])
    THEN LET k == CHOOSE i \in 1..Len(images) :
                    /\ ~ImageOk(images[i])
                    /\ \A j \in 1..(i - 1) : ImageOk(images[j])
         IN ImageError(images[k])
  ELSE IF ~IsObjectId(Strip(patient_id))
    THEN Err(400, "Invalid ID format", Strip(patient_id))
  ELSE IF ~IsIsoDate(Strip(date)) THEN Err(400, "Invalid input", "date")
  ELSE NoError

\* create_consultation, the size checks on the content read from an upload.
SizeError(image) ==
  IF image.size = 0 THEN Err(400, "is empty", image.filename)
  ELSE IF image.size > MaxImageBytes
    THEN Err(400, "is too large (max 10MB)", image.filename)
  ELSE NoError

\* A label cut at one half.
PredictDiagnosisAtHalf(probability) ==
  IF probability >= Half THEN "Stroke" ELSE "Normal"

\* predict_stroke: label and threshold-relative confidence of a probability.
PredictDiagnosis(probability) ==
  IF probability >= OPTIMAL_THRESHOLD THEN "Stroke" ELSE "Normal"

Clamp01(q) ==
  IF q.num < 0 THEN [num |-> 0, den |-> 1]
  ELSE IF q.num > q.den THEN [num |-> 1, den |-> 1]
  ELSE q

PredictConfidence(probability) ==
  Clamp01(IF PredictDiagnosis(probability) = "Stroke"
            THEN [num |-> probability - OPTIMAL_THRESHOLD,
                  den |-> One - OPTIMAL_THRESHOLD]
            ELSE [num |-> OPTIMAL_THRESHOLD - probability,
                  den |-> OPTIMAL_THRESHOLD])

Prediction(probability) ==
  [diagnosis |-> PredictDiagnosis(probability),
   confidence |-> PredictConfidence(probability),
   probability |-> probability]

NoPrediction == [diagnosis |-> "", confidence |-> [num |-> 0, den |-> 1],
                 probability |-> 0]

\* sum(probabilities) / len(probabilities) if probabilities else 0
AvgProbability(probabilities) ==
  IF probabilities = <<>> THEN [num |-> 0, den |-> 1]
  ELSE [num |-> SumSeq(probabilities), den |-> Len(probabilities) * One]

\* q >= 0.5 for a rational q
AtLeastHalf(q) == q.num * One >= Half * q.den

\* A cutoff that leaves the boundary out.
FinalDiagnosisAboveHalf(avg) ==
  IF avg.num * One > Half * avg.den THEN "Stroke" ELSE "Normal"

\* "Stroke" if avg_probability >= 0.5 else "Normal"
FinalDiagnosis(avg) == IF AtLeastHalf(avg) THEN "Stroke" ELSE "Normal"

\* image_analyses.append(image_analysis)
AppendAnalysis(analyses, analysis) == Append(analyses, analysis)

\* An analysis record that takes the consultation's id for the image's.
ImageAnalysisWithOwnerId(blob_id, consultation_id, image, prediction) ==
  [image_id |-> OidStr(consultation_id),
   consultation_id |-> OidStr(consultation_id),
   filename |-> image.filename,
   diagnosis |-> prediction.diagnosis,
   confidence |-> prediction.confidence,
   probability |-> prediction.probability]

\* the image_analysis record built for one stored image
ImageAnalysis(blob_id, consultation_id, image, prediction) ==
  [image_id |-> OidStr(blob_id),
   consultation_id |-> OidStr(consultation_id),
   filename |-> image.filename,
   diagnosis |-> prediction.diagnosis,
   confidence |-> prediction.confidence,
   probability |-> prediction.probability]

\* the provisional document inserted before per-image work
ProvisionalConsultation(patient_id, date, notes) ==
  [patient_id |-> patient_id, date |-> date, notes |-> notes,
   diagnosis |-> "Processing...", probability |-> [num |-> 0, den |-> 1],
   image_analyses |-> <<>>]

\* A $set that leaves the embedded image list empty.
FinalizeDocWithoutImages(doc, diagnosis, avg, analyses) ==
  [doc EXCEPT !.diagnosis = diagnosis, !.probability = avg]

\* A $set that leaves the placeholder probability.
FinalizeDocWithoutProbability(doc, diagnosis, avg, analyses) ==
  [doc EXCEPT !.diagnosis = diagnosis, !.image_analyses = analyses]

\* $set of diagnosis, probability and image_analyses
FinalizeDoc(doc, diagnosis, avg, analyses) ==
  [doc EXCEPT !.diagnosis = diagnosis, !.probability = avg,
              !.image_analyses = analyses]

\* the image entries of a ConsultationResponse
ResponseImage(img) ==
  [id |-> img.image_id, image_id |-> img.image_id,
   consultation_id |-> img.consultation_id, filename |-> img.filename,
   diagnosis |-> img.diagnosis, confidence |-> img.confidence,
   probability |-> img.probability, url |-> <<"/api/images/", img.image_id>>]

ResponseImages(analyses) ==
  [i \in 1..Len(analyses) |-> ResponseImage(analyses[i])]

NoResponse == [id |-> OidStr(0), patient_id |-> "", diagnosis |-> "",
               probability |-> [num |-> 0, den |-> 1], images |-> <<>>]

\* ------------------------------------------------------------- state
VARIABLES
  patients,        \* Metadata Store: ids of the Patient documents
  consultations,   \* Metadata Store: consultation id -> document
  blobs,           \* Blob Store (GridFS): blob id -> metadata
  nextConsultation, \* next _id insert_one gives a consultation
  nextBlob,        \* next file id upload_from_stream gives a blob
  req,             \* create_consultation requests: slot -> locals
  del,             \* delete_consultation requests: slot -> locals
  lastDelete,      \* history: the delete_consultation call that ended last and
                   \* the one its caller made before it, while nobody else has
                   \* taken a step
  image_analyses,  \* Metadata Store: the records of the image_analyses collection
  upl,             \* upload_consultation_image requests: slot -> locals
  upd              \* update_consultation requests: slot -> locals

vars == <<patients, consultations, blobs, nextConsultation, nextBlob, req, del,
          lastDelete, image_analyses, upl, upd>>

\* What create_consultation and delete_consultation never assign.
others == <<image_analyses, upl, upd>>

\* One slot per create_consultation request the clients send, one per client
\* that calls delete_consultation (again and again).
Creators == {"c1"}
Deleters == {"d1"}

\* The ids delete_consultation and the read endpoints are called with: 0 is
\* text that is no ObjectId, the others are the ids insert_one can give.
ConsultationIdInputs == 0..Cardinality(DOMAIN req)

IdleReq ==
  [pc |-> "idle", patient_id |-> "", date |-> "", notes |-> "", images |-> <<>>,
   consultation_id |-> 0, idx |-> 0, prediction |-> NoPrediction,
   image_analyses |-> <<>>, probabilities |-> <<>>,
   pending |-> NoError, status |-> 0, detail |-> <<"", "">>,
   response |-> NoResponse,
   \* history of the call, kept for the properties: the store and scorer
   \* calls issued, the scorer's outputs, the blobs written, the error that
   \* started a rollback, the image the scorer failed on, whether the
   \* finalizing update raised or matched nothing, whether a rollback raised
   reads |-> 0, inserts |-> 0, updates |-> 0, deletes |-> 0, puts |-> 0,
   scores |-> 0, outputs |-> <<>>, written |-> {}, trigger |-> NoError,
   scorerFailedAt |-> 0, finalizeFailed |-> FALSE, rollbackFailed |-> FALSE,
   cancelled |-> FALSE,
   \* the image whose processing failed, and the store and scorer calls of
   \* the request in the order they were issued
   failedAt |-> 0, log |-> <<>>]

IdleDel ==
  [pc |-> "idle", consultation_id |-> 0, images |-> <<>>, idx |-> 0,
   status |-> 0, detail |-> <<"", "">>,
   \* history of the call, kept for the properties: whether the document
   \* was missing when the call arrived, whether its id had been given out
   \* by then, the blobs fs.delete was called with, the positions where it
   \* raised, the delete_one calls issued, whether a store call of this
   \* caller ever raised, the create requests that were still processing
   \* images of a document when this caller's delete_one removed it
   missing |-> FALSE, known |-> FALSE, attempted |-> <<>>, failed |-> {},
   docDeletes |-> 0, faulted |-> FALSE, removedUnder |-> {}]

\* One slot per upload_consultation_image and per update_consultation
\* request the clients send.
Uploaders == {"u1"}
Updaters == {"m1"}

IdleUpl ==
  [pc |-> "idle", consultation_id |-> 0, file |-> <<>>, file_id |-> 0,
   status |-> 0, detail |-> <<"", "">>]

IdleUpd ==
  [pc |-> "idle", consultation_id |-> 0, patient_id |-> "", date |-> "",
   notes |-> "", status |-> 0, detail |-> <<"", "">>,
   \* history: the diagnosis of the document the $set was applied to
   wroteOver |-> ""]

NoDelete == [by |-> "", id |-> 0, status |-> 0, prevId |-> 0, prevStatus |-> 0]

Init ==
  /\ patients = {"p1"}
  /\ consultations = <<>>
  /\ blobs = <<>>
  /\ nextConsultation = 1
  /\ nextBlob = 1
  /\ req = [r \in Creators |-> IdleReq]
  /\ del = [d \in Deleters |-> IdleDel]
  /\ lastDelete = NoDelete
  /\ image_analyses = <<>>
  /\ upl = [u \in Uploaders |-> IdleUpl]
  /\ upd = [u \in Updaters |-> IdleUpd]

\* ------------------------------------------------- store operations
\* insert_one / upload_from_stream: a new key with its document
Put(store, id, doc) == store @@ (id :> doc)

\* A delete that deletes nothing.
RemoveNothing(store, id) == store

\* delete_one / fs.delete: the store without the key
Remove(store, id) == [k \in (DOMAIN store) \ {id} |-> store[k]]

\* update_one({"_id": id}, {"$set": ...}): the matched document replaced
Replace(store, id, doc) == [store EXCEPT ![id] = doc]

Exists(store, id) == id \in DOMAIN store

\* An update whose filter matches every document.
UpdateEvery(store, id, doc) == [k \in DOMAIN store |-> doc]

\* update_one: no document matched leaves the store as it is
UpdateOne(store, id, doc) == IF Exists(store, id) THEN Replace(store, id, doc) ELSE store

\* A lookup whose result is not checked.
PatientFoundUnchecked(patient_id) == patient_id \in PatientOids

\* patients.find_one({"_id": id}) found a document
PatientFound(patient_id) == patient_id \in patients

\* update_result.modified_count != 0: the $set changes every document it
\* matches (the placeholder diagnosis is never the final one)
Modified(store, id) == Exists(store, id)

\* ------------------------------------------------ create_consultation
\* Another operation ran since the last delete_consultation returned: the
\* record of that call is dropped.
Disturbed == NoDelete

SetReq(r, rec) == req' = [req EXCEPT ![r] = rec]

Finish(rec, err) ==
  [rec EXCEPT !.pc = "done", !.status = err.status, !.detail = err.detail]

\* Lines 58-98: the request arrives and is checked up to the patient lookup.
CreateStart(r, Requests) ==
  /\ req[r].pc = "idle"
  /\ \E q \in Requests :
       LET rec == [IdleReq EXCEPT !.patient_id = q.patient_id, !.date = q.date,
                                  !.notes = q.notes, !.images = q.images]
           err == ValidateInputs(q.patient_id, q.date, q.images)
       IN IF err.status # 0
            THEN SetReq(r, Finish(rec, err))
            ELSE SetReq(r, [rec EXCEPT !.pc = "find_patient"])
  /\ lastDelete' = Disturbed
  /\ UNCHANGED others
  /\ UNCHANGED <<patients, consultations, blobs, nextConsultation, nextBlob, del>>

\* A lookup that removes the document it returns.
PatientsAfterFindOneAndDelete(coll, patient_id) == coll \ {patient_id}

\* patients.find_one, the handler's only call on the patients collection:
\* a read, after which the collection is what it was.
PatientsAfterFindOne(coll, patient_id) == coll

\* Lines 101-124: patients.find_one returns.
CreateFindPatient(r) ==
  /\ req[r].pc = "find_patient"
  /\ LET rec == [req[r] EXCEPT !.reads = @ + 1]
     IN \/ SetReq(r, Finish(rec, Unhandled))
        \/ IF PatientFound(Strip(rec.patient_id))
             THEN SetReq(r, [rec EXCEPT !.pc = "insert"])
             ELSE SetReq(r, Finish(rec, Err(404, "Patient not found", "")))
  /\ patients' = PatientsAfterFindOne(patients, Strip(req[r].patient_id))
  /\ lastDelete' = Disturbed
  /\ UNCHANGED others
  /\ UNCHANGED <<consultations, blobs, nextConsultation, nextBlob, del>>

\* Lines 126-149: consultations.insert_one returns; the loop starts.
CreateInsert(r) ==
  /\ req[r].pc = "insert"
  /\ LET rec == [req[r] EXCEPT !.inserts = @ + 1,
                                !.log = Append(@, <<"insert", 0>>)]
     IN \/ /\ SetReq(r, Finish(rec, Err(500, "Database error", "insert_one")))
           /\ UNCHANGED <<consultations, nextConsultation>>
        \/ /\ consultations' =
                Put(consultations, nextConsultation,
                    ProvisionalConsultation(Strip(rec.patient_id),
                                            Strip(rec.date), rec.notes))
           /\ nextConsultation' = nextConsultation + 1
           /\ SetReq(r, [rec EXCEPT !.pc = "read", !.idx = 1,
                                    !.consultation_id = nextConsultation])
  /\ lastDelete' = Disturbed
  /\ UNCHANGED others
  /\ UNCHANGED <<patients, blobs, nextBlob, del>>

\* A failure that is logged, after which the loop goes on.
AfterImageFailureSkip(rec, e, handler) ==
  [rec EXCEPT !.prediction = NoPrediction, !.idx = @ + 1,
              !.pc = IF rec.idx < Len(rec.images) THEN "read" ELSE "update"]

\* Lines 195-206: an exception in the processing of one image leaves the
\* loop; the handler awaits the rollback delete_one and raises.
AfterImageFailure(rec, e, handler) ==
  [rec EXCEPT !.pc = handler, !.pending = e, !.trigger = e]

\* Lines 149-168: image.read() returns; size checks, then predict_stroke.
CreateReadAndPredict(r, Outputs) ==
  /\ req[r].pc = "read"
  /\ LET rec == req[r]
         image == rec.images[rec.idx]
         err == SizeError(image)
         scored == [rec EXCEPT !.scores = @ + 1,
                               !.log = Append(@, <<"score", rec.idx>>)]
     IN IF err.status # 0
          THEN \* except HTTPException (195): delete_one is awaited
               SetReq(r, [AfterImageFailure(rec, err, "rollback_197")
                            EXCEPT !.failedAt = rec.idx])
          ELSE \/ \* predict_stroke raises: except Exception (199)
                  LET e == Err(500, "Error processing image", "Prediction error")
                  IN SetReq(r, [AfterImageFailure(scored, e, "rollback_202")
                                  EXCEPT !.scorerFailedAt = rec.idx,
                                         !.failedAt = rec.idx])
               \/ \E probability \in Outputs :
                    SetReq(r, [scored EXCEPT !.pc = "upload",
                                             !.outputs = Append(@, probability),
                                             !.prediction = Prediction(probability)])
  /\ lastDelete' = Disturbed
  /\ UNCHANGED others
  /\ UNCHANGED <<patients, consultations, blobs, nextConsultation, nextBlob, del>>

\* A loop left for the finalizing update after the first stored image.
AfterUploadFromStreamThenUpdate(rec, gridfs_file, image) ==
  [rec EXCEPT
     !.image_analyses =
        AppendAnalysis(@, ImageAnalysis(gridfs_file, rec.consultation_id,
                                        image, rec.prediction)),
     !.probabilities = Append(@, rec.prediction.probability),
     !.written = @ \cup {gridfs_file},
     !.log = Append(@, <<"append", rec.idx>>),
     !.prediction = NoPrediction,
     !.idx = @ + 1,
     !.pc = "update"]

\* Lines 178-193 and 208-216: the blob is stored; the analysis record and
\* the probability are appended; the loop goes on to the next image or,
\* after the last one, to the aggregate and the finalizing update.
AfterUploadFromStream(rec, gridfs_file, image) ==
  [rec EXCEPT
     !.image_analyses =
        AppendAnalysis(@, ImageAnalysis(gridfs_file, rec.consultation_id,
                                        image, rec.prediction)),
     !.probabilities = Append(@, rec.prediction.probability),
     !.written = @ \cup {gridfs_file},
     !.log = Append(@, <<"append", rec.idx>>),
     !.prediction = NoPrediction,
     !.idx = @ + 1,
     !.pc = IF rec.idx < Len(rec.images) THEN "read" ELSE "update"]

\* Lines 168-193 and 208-216: upload_from_stream returns; the analysis is
\* appended; after the last image the aggregate is computed.
CreateUpload(r) ==
  /\ req[r].pc = "upload"
  /\ LET rec == [req[r] EXCEPT !.puts = @ + 1,
                                !.log = Append(@, <<"put", req[r].idx>>)]
         image == rec.images[rec.idx]
     IN \/ /\ LET e == Err(500, "Error processing image", "upload_from_stream")
              IN SetReq(r, [AfterImageFailure(rec, e, "rollback_202")
                              EXCEPT !.failedAt = rec.idx])
           /\ UNCHANGED <<blobs, nextBlob>>
        \/ /\ blobs' = Put(blobs, nextBlob,
                           [filename |-> image.filename,
                            content_type |-> image.content_type,
                            size |-> image.size,
                            consultation_id |-> OidStr(rec.consultation_id)])
           /\ nextBlob' = nextBlob + 1
           /\ SetReq(r, AfterUploadFromStream(rec, nextBlob, image))
  /\ lastDelete' = Disturbed
  /\ UNCHANGED others
  /\ UNCHANGED <<patients, consultations, nextConsultation, del>>

\* A finalization that does not look at modified_count.
AfterUpdateUnchecked(rec, modified, final_diagnosis, avg_probability) ==
  [rec EXCEPT
     !.pc = "done", !.status = 201,
     !.response =
        [id |-> OidStr(rec.consultation_id),
         patient_id |-> Strip(rec.patient_id),
         diagnosis |-> final_diagnosis,
         probability |-> avg_probability,
         images |-> ResponseImages(rec.image_analyses)]]

\* Lines 227-262: what follows the update_one that returned: the rollback
\* when nothing was modified, the response otherwise.
AfterUpdate(rec, modified, final_diagnosis, avg_probability) ==
  IF modified
    THEN [rec EXCEPT
            !.pc = "done", !.status = 201,
            !.response =
               [id |-> OidStr(rec.consultation_id),
                patient_id |-> Strip(rec.patient_id),
                diagnosis |-> final_diagnosis,
                probability |-> avg_probability,
                images |-> ResponseImages(rec.image_analyses)]]
    ELSE LET e == Err(500, "Failed to update consultation with results", "")
         IN [rec EXCEPT !.pc = "rollback_229", !.pending = e, !.trigger = e]

\* Lines 216-262: update_one returns; the response is built.
CreateUpdate(r) ==
  /\ req[r].pc = "update"
  /\ LET rec == [req[r] EXCEPT !.updates = @ + 1,
                                !.log = Append(@, <<"update", 0>>)]
         id == rec.consultation_id
         avg_probability == AvgProbability(rec.probabilities)
         final_diagnosis == FinalDiagnosis(avg_probability)
     IN \/ \* update_one raises: except Exception (267)
           /\ LET e == Err(500, "Database error", "update_one")
              IN SetReq(r, [rec EXCEPT !.pc = "rollback_270", !.pending = e,
                                       !.trigger = e, !.finalizeFailed = TRUE])
           /\ UNCHANGED consultations
        \/ /\ consultations' =
                IF Exists(consultations, id)
                  THEN UpdateOne(consultations, id,
                                 FinalizeDoc(consultations[id], final_diagnosis,
                                             avg_probability, rec.image_analyses))
                  ELSE consultations
           /\ SetReq(r, [AfterUpdate(rec, Modified(consultations, id),
                                     final_diagnosis, avg_probability)
                           EXCEPT !.finalizeFailed = ~Exists(consultations, id)])
  /\ lastDelete' = Disturbed
  /\ UNCHANGED others
  /\ UNCHANGED <<patients, blobs, nextConsultation, nextBlob, del>>

\* The rollback delete_one of lines 197, 202, 229 and 270 returns.  When it
\* raises at 197, 202 or 270 the exception leaves the handler; at 229 it is
\* caught by except Exception (267), which deletes again and reports it.
CreateRollback(r) ==
  /\ req[r].pc \in {"rollback_197", "rollback_202", "rollback_229", "rollback_270"}
  /\ LET rec == [req[r] EXCEPT !.deletes = @ + 1]
     IN \/ /\ consultations' = Remove(consultations, rec.consultation_id)
           /\ SetReq(r, Finish(rec, rec.pending))
        \/ /\ UNCHANGED consultations
           /\ IF rec.pc = "rollback_229"
                THEN SetReq(r, [rec EXCEPT !.pc = "rollback_270",
                                   !.pending = Err(500, "Database error", "delete_one"),
                                   !.rollbackFailed = TRUE])
                ELSE SetReq(r, [Finish(rec, Unhandled) EXCEPT !.rollbackFailed = TRUE])
  /\ lastDelete' = Disturbed
  /\ UNCHANGED others
  /\ UNCHANGED <<patients, blobs, nextConsultation, nextBlob, del>>

\* The request's task is cancelled while it awaits a scorer or store call:
\* asyncio.CancelledError is raised at the await; it is no Exception, so
\* neither except HTTPException nor except Exception (195-206, 264-274)
\* runs, and the coroutine ends there.  The awaited call is abandoned.
CreateCancel(r) ==
  /\ req[r].pc \in {"find_patient", "insert", "read", "upload", "update",
                    "rollback_197", "rollback_202", "rollback_229", "rollback_270"}
  /\ SetReq(r, [req[r] EXCEPT !.pc = "done", !.cancelled = TRUE])
  /\ lastDelete' = Disturbed
  /\ UNCHANGED others
  /\ UNCHANGED <<patients, consultations, blobs, nextConsultation, nextBlob, del>>

\* ------------------------------------------------ delete_consultation
SetDel(d, rec) == del' = [del EXCEPT ![d] = rec]

FinishDel(rec, st, kind) ==
  [rec EXCEPT !.pc = "done", !.status = st, !.detail = <<kind, "">>,
              !.faulted = @ \/ st = 500]

\* Steps of the caller whose call is the recorded one leave the record as it
\* is; anybody else's step disturbs it.  A call that ends is recorded with
\* the undisturbed call before it.
DeleteHistory(d, rec) ==
  LET kept == IF lastDelete.by = d THEN lastDelete ELSE Disturbed
  IN IF rec.pc = "done"
       THEN [by |-> d, id |-> rec.consultation_id, status |-> rec.status,
             prevId |-> kept.id, prevStatus |-> kept.status]
       ELSE kept

\* The create requests inside the per-image loop for consultation id.
ProcessingImagesOf(id) ==
  { r \in DOMAIN req : req[r].consultation_id = id /\ req[r].pc \in {"read", "upload"} }

\* Lines 607-612: validate_object_id, then find_one is awaited.
DeleteStart(d) ==
  /\ del[d].pc = "idle"
  /\ \E id \in ConsultationIdInputs :
       LET rec == [IdleDel EXCEPT !.consultation_id = id,
                                  !.faulted = del[d].faulted,
                                  !.removedUnder = del[d].removedUnder,
                                  !.missing = ~Exists(consultations, id),
                                  !.known = id < nextConsultation]
       IN IF id = 0
            THEN SetDel(d, FinishDel(rec, 400, "Invalid ID format"))
            ELSE SetDel(d, [rec EXCEPT !.pc = "find"])
  /\ lastDelete' = DeleteHistory(d, del'[d])
  /\ UNCHANGED others
  /\ UNCHANGED <<patients, consultations, blobs, nextConsultation, nextBlob, req>>

\* A lookup whose result is not looked at.
AfterFindOneUnchecked(rec, found, images) ==
  [rec EXCEPT !.images = images, !.idx = 1,
              !.pc = IF images = <<>> THEN "delete" ELSE "blobs"]

\* Lines 613-623: what follows the find_one that returned: NotFound, or the
\* loop over the embedded image_analyses.
AfterFindOne(rec, found, images) ==
  IF found
    THEN [rec EXCEPT !.images = images, !.idx = 1,
                     !.pc = IF images = <<>> THEN "delete" ELSE "blobs"]
    ELSE FinishDel(rec, 404, "Consultation not found")

\* Lines 612-625: find_one returns; the blob deletions start.
DeleteFind(d) ==
  /\ del[d].pc = "find"
  /\ LET rec == del[d]
         id == rec.consultation_id
         found == Exists(consultations, id)
         images == IF found THEN consultations[id].image_analyses ELSE <<>>
     IN \/ SetDel(d, FinishDel(rec, 500, "Error deleting consultation"))
        \/ SetDel(d, AfterFindOne(rec, found, images))
  /\ lastDelete' = DeleteHistory(d, del'[d])
  /\ UNCHANGED others
  /\ UNCHANGED <<patients, consultations, blobs, nextConsultation, nextBlob, req>>

\* A blob deletion whose failure ends the call.
AfterFsDeleteFatal(rec, raised) ==
  IF raised
    THEN FinishDel([rec EXCEPT !.failed = @ \cup {rec.idx}], 500,
                   "Error deleting consultation")
    ELSE [rec EXCEPT !.idx = @ + 1,
                     !.pc = IF rec.idx < Len(rec.images) THEN "blobs" ELSE "delete"]

\* Lines 623-631: what follows one fs.delete: its exception is logged, and
\* the loop goes on to the next image or to delete_one.
AfterFsDelete(rec, raised) ==
  [rec EXCEPT !.failed = IF raised THEN @ \cup {rec.idx} ELSE @,
              !.faulted = @ \/ raised,
              !.idx = @ + 1,
              !.pc = IF rec.idx < Len(rec.images) THEN "blobs" ELSE "delete"]

\* Lines 623-631: fs.delete of one image returns or raises (logged).
DeleteBlob(d) ==
  /\ del[d].pc = "blobs"
  /\ LET image == del[d].images[del[d].idx]
         rec == [del[d] EXCEPT !.attempted = Append(@, ParseOid(image.image_id))]
     IN \/ /\ blobs' = Remove(blobs, ParseOid(image.image_id))
           /\ SetDel(d, AfterFsDelete(rec, FALSE))
        \/ /\ UNCHANGED blobs
           /\ SetDel(d, AfterFsDelete(rec, TRUE))
  /\ lastDelete' = DeleteHistory(d, del'[d])
  /\ UNCHANGED others
  /\ UNCHANGED <<patients, consultations, nextConsultation, nextBlob, req>>

\* Lines 631-649: delete_one returns.
DeleteDoc(d) ==
  /\ del[d].pc = "delete"
  /\ LET rec == [del[d] EXCEPT !.docDeletes = @ + 1]
         id == rec.consultation_id
     IN \/ /\ SetDel(d, FinishDel(rec, 500, "Error deleting consultation"))
           /\ UNCHANGED consultations
        \/ /\ consultations' = Remove(consultations, id)
           /\ IF Exists(consultations, id)
                THEN SetDel(d, [FinishDel(rec, 200, "Consultation deleted successfully")
                                  EXCEPT !.removedUnder = @ \cup ProcessingImagesOf(id)])
                ELSE SetDel(d, FinishDel(rec, 404, "Consultation not found"))
  /\ lastDelete' = DeleteHistory(d, del'[d])
  /\ UNCHANGED others
  /\ UNCHANGED <<patients, blobs, nextConsultation, nextBlob, req>>

\* The response has been sent; the caller may call again.
DeleteReturn(d) ==
  /\ del[d].pc = "done"
  /\ SetDel(d, [IdleDel EXCEPT !.faulted = del[d].faulted,
                               !.removedUnder = del[d].removedUnder])
  /\ lastDelete' = DeleteHistory(d, IdleDel)
  /\ UNCHANGED others
  /\ UNCHANGED <<patients, consultations, blobs, nextConsultation, nextBlob, req>>

\* ------------------------------------------- upload_consultation_image
\* The files upload_consultation_image is called with: an image, a file
\* that is no image/*, and an image/* file PIL cannot verify.
UploadFileInputs ==
  { [filename |-> "a.png", content_type |-> ImagePng, size |-> 1024, verifies |-> TRUE],
    [filename |-> "c.pdf", content_type |-> ApplicationPdf, size |-> 1024, verifies |-> FALSE],
    [filename |-> "x.png", content_type |-> ImagePng, size |-> 1024, verifies |-> FALSE] }

SetUpl(u, rec) == upl' = [upl EXCEPT ![u] = rec]

FinishUpl(rec, st, kind) ==
  [rec EXCEPT !.pc = "done", !.status = st, !.detail = <<kind, "">>]

\* the image_record inserted into the image_analyses collection
ImageRecord(consultation_id, file_id, file) ==
  [consultation_id |-> consultation_id, image_id |-> file_id,
   filename |-> file.filename, content_type |-> file.content_type,
   diagnosis |-> "Unknown", confidence |-> [num |-> 0, den |-> 1],
   probability |-> 0, status |-> "uploaded"]

\* Lines 118-121: validate_object_id, then find_one is awaited.
UploadStart(u) ==
  /\ upl[u].pc = "idle"
  /\ \E id \in ConsultationIdInputs, file \in UploadFileInputs :
       LET rec == [IdleUpl EXCEPT !.consultation_id = id, !.file = file]
       IN IF id = 0
            THEN SetUpl(u, FinishUpl(rec, 400, "Invalid ID format"))
            ELSE SetUpl(u, [rec EXCEPT !.pc = "find"])
  /\ lastDelete' = Disturbed
  /\ UNCHANGED <<patients, consultations, blobs, nextConsultation, nextBlob,
                 req, del, image_analyses, upd>>

\* Lines 121-133: find_one returns; the content type is checked; file.read()
\* is awaited.
UploadFind(u) ==
  /\ upl[u].pc = "find"
  /\ LET rec == upl[u]
     IN \/ SetUpl(u, FinishUpl(rec, 500, "Failed to upload image"))
        \/ IF ~Exists(consultations, rec.consultation_id)
             THEN SetUpl(u, FinishUpl(rec, 404, "Consultation not found"))
           ELSE IF ~StartsWithImage(rec.file.content_type)
             THEN SetUpl(u, FinishUpl(rec, 400, "Only image files are allowed"))
           ELSE SetUpl(u, [rec EXCEPT !.pc = "read"])
  /\ lastDelete' = Disturbed
  /\ UNCHANGED <<patients, consultations, blobs, nextConsultation, nextBlob,
                 req, del, image_analyses, upd>>

\* Lines 133-142: file.read() returns; PIL verifies the bytes;
\* upload_from_stream is awaited.
UploadRead(u) ==
  /\ upl[u].pc = "read"
  /\ LET rec == upl[u]
     IN IF rec.file.verifies
          THEN SetUpl(u, [rec EXCEPT !.pc = "upload"])
          ELSE SetUpl(u, FinishUpl(rec, 400, "Invalid image file"))
  /\ lastDelete' = Disturbed
  /\ UNCHANGED <<patients, consultations, blobs, nextConsultation, nextBlob,
                 req, del, image_analyses, upd>>

\* Lines 142-167: upload_from_stream returns; insert_one into image_analyses
\* is awaited.
UploadPut(u) ==
  /\ upl[u].pc = "upload"
  /\ LET rec == upl[u]
     IN \/ /\ SetUpl(u, FinishUpl(rec, 500, "Failed to upload image"))
           /\ UNCHANGED <<blobs, nextBlob>>
        \/ /\ blobs' = Put(blobs, nextBlob,
                           [filename |-> rec.file.filename,
                            content_type |-> rec.file.content_type,
                            size |-> rec.file.size,
                            consultation_id |-> OidStr(rec.consultation_id)])
           /\ nextBlob' = nextBlob + 1
           /\ SetUpl(u, [rec EXCEPT !.pc = "insert", !.file_id = nextBlob])
  /\ lastDelete' = Disturbed
  /\ UNCHANGED <<patients, consultations, nextConsultation, req, del,
                 image_analyses, upd>>

\* Lines 167-183: image_analyses.insert_one returns.
UploadInsert(u) ==
  /\ upl[u].pc = "insert"
  /\ LET rec == upl[u]
     IN \/ /\ SetUpl(u, FinishUpl(rec, 500, "Failed to upload image"))
           /\ UNCHANGED image_analyses
        \/ /\ image_analyses' =
                Append(image_analyses,
                       ImageRecord(rec.consultation_id, rec.file_id, rec.file))
           /\ SetUpl(u, FinishUpl(rec, 200, "success"))
  /\ lastDelete' = Disturbed
  /\ UNCHANGED <<patients, consultations, blobs, nextConsultation, nextBlob,
                 req, del, upd>>

\* -------------------------------------------------- update_consultation
UpdateInputs ==
  [consultation_id : ConsultationIdInputs,
   patient_id : {"p1", "p2", "not-an-oid"},
   date : {"2024-02-01", "15/01/2024"},
   notes : {"follow-up"}]

SetUpd(u, rec) == upd' = [upd EXCEPT ![u] = rec]

FinishUpd(rec, st, kind) ==
  [rec EXCEPT !.pc = "done", !.status = st, !.detail = <<kind, "">>]

\* A $set that also puts the diagnosis back to the placeholder.
UpdateDataWithDiagnosis(doc, patient_id, date, notes) ==
  [doc EXCEPT !.patient_id = patient_id, !.date = date, !.notes = notes,
              !.diagnosis = "Processing..."]

\* $set of patient_id, date and notes (and updated_at)
UpdateData(doc, patient_id, date, notes) ==
  [doc EXCEPT !.patient_id = patient_id, !.date = date, !.notes = notes]

\* Lines 478-484: the ids and the date are parsed; find_one is awaited.
UpdateStart(u) ==
  /\ upd[u].pc = "idle"
  /\ \E q \in UpdateInputs :
       LET rec == [IdleUpd EXCEPT !.consultation_id = q.consultation_id,
                                  !.patient_id = q.patient_id,
                                  !.date = q.date, !.notes = q.notes]
       IN IF q.consultation_id = 0 \/ ~IsObjectId(Strip(q.patient_id))
            THEN SetUpd(u, FinishUpd(rec, 400, "Invalid ID format"))
          ELSE IF ~IsIsoDate(Strip(q.date))
            THEN SetUpd(u, FinishUpd(rec, 400, "Invalid input"))
          ELSE SetUpd(u, [rec EXCEPT !.pc = "find"])
  /\ lastDelete' = Disturbed
  /\ UNCHANGED <<patients, consultations, blobs, nextConsultation, nextBlob,
                 req, del, image_analyses, upl>>

\* Lines 484-489: consultations.find_one returns.
UpdateFind(u) ==
  /\ upd[u].pc = "find"
  /\ LET rec == upd[u]
     IN \/ SetUpd(u, FinishUpd(rec, 500, "Error updating consultation"))
        \/ IF Exists(consultations, rec.consultation_id)
             THEN SetUpd(u, [rec EXCEPT !.pc = "find_patient"])
             ELSE SetUpd(u, FinishUpd(rec, 404, "Consultation not found"))
  /\ lastDelete' = Disturbed
  /\ UNCHANGED <<patients, consultations, blobs, nextConsultation, nextBlob,
                 req, del, image_analyses, upl>>

\* Lines 489-501: patients.find_one returns.
UpdateFindPatient(u) ==
  /\ upd[u].pc = "find_patient"
  /\ LET rec == upd[u]
     IN \/ SetUpd(u, FinishUpd(rec, 500, "Error updating consultation"))
        \/ IF PatientFound(Strip(rec.patient_id))
             THEN SetUpd(u, [rec EXCEPT !.pc = "update"])
             ELSE SetUpd(u, FinishUpd(rec, 404, "Patient not found"))
  /\ lastDelete' = Disturbed
  /\ UNCHANGED <<patients, consultations, blobs, nextConsultation, nextBlob,
                 req, del, image_analyses, upl>>

\* Lines 501-510: update_one returns; updated_at makes every matched
\* document a modified one.
UpdateSet(u) ==
  /\ upd[u].pc = "update"
  /\ LET rec == upd[u]
         id == rec.consultation_id
     IN \/ /\ SetUpd(u, FinishUpd(rec, 500, "Error updating consultation"))
           /\ UNCHANGED consultations
        \/ /\ consultations' =
                IF Exists(consultations, id)
                  THEN UpdateOne(consultations, id,
                                 UpdateData(consultations[id], Strip(rec.patient_id),
                                            Strip(rec.date), rec.notes))
                  ELSE consultations
           /\ IF Modified(consultations, id)
                THEN SetUpd(u, [rec EXCEPT !.pc = "reload",
                                           !.wroteOver = consultations[id].diagnosis])
                ELSE SetUpd(u, FinishUpd(rec, 404,
                                         "Consultation not found or no changes made"))
  /\ lastDelete' = Disturbed
  /\ UNCHANGED <<patients, blobs, nextConsultation, nextBlob, req, del,
                 image_analyses, upl>>

\* Lines 510-535: the second find_one returns; a document deleted meanwhile
\* makes the response raise (except Exception, 500).
UpdateReload(u) ==
  /\ upd[u].pc = "reload"
  /\ LET rec == upd[u]
     IN \/ SetUpd(u, FinishUpd(rec, 500, "Error updating consultation"))
        \/ IF Exists(consultations, rec.consultation_id)
             THEN SetUpd(u, FinishUpd(rec, 200, "Consultation updated successfully"))
             ELSE SetUpd(u, FinishUpd(rec, 500, "Error updating consultation"))
  /\ lastDelete' = Disturbed
  /\ UNCHANGED <<patients, consultations, blobs, nextConsultation, nextBlob,
                 req, del, image_analyses, upl>>

\* ------------------------------------------------------ delete_patient
\* patients.py delete_patient (152-182): ObjectId.is_valid, then delete_one
\* on the patients collection, its only await; nothing else is touched.
DeletePatient ==
  /\ \E id \in PatientIdInputs :
       patients' = IF IsObjectId(id) THEN patients \ {id} ELSE patients
  /\ lastDelete' = Disturbed
  /\ UNCHANGED others
  /\ UNCHANGED <<consultations, blobs, nextConsultation, nextBlob, req, del>>

\* ------------------------------------------------------ read endpoints
\* A read endpoint assigns nothing: it returns what the stores hold when it
\* runs.  Its response is an operator of the state, and its action leaves
\* the state as it is.
RECURSIVE SortedDesc(_)
SortedDesc(S) ==
  IF S = {} THEN <<>>
  ELSE LET m == CHOOSE x \in S : \A y \in S : y <= x
       IN <<m>> \o SortedDesc(S \ {m})

PatientName(patient_id) == <<"name of", patient_id>>

\* An open_download_stream that never raises.
AccessibleAlways(img) == TRUE

\* fs.open_download_stream succeeds for a stored blob only
Accessible(img) == Exists(blobs, ParseOid(img.image_id))

ConsultationView(id, images, patient_name) ==
  [id |-> OidStr(id),
   patient_id |-> consultations[id].patient_id,
   patient_name |-> patient_name,
   diagnosis |-> consultations[id].diagnosis,
   probability |-> consultations[id].probability,
   images |-> ResponseImages(images)]

Returned(st, items) == [status |-> st, items |-> items]

\* get_consultations (277-342), default skip and limit: every document,
\* newest first, with all its embedded images.
GetConsultationsResponse ==
  LET ids == SortedDesc(DOMAIN consultations)
  IN Returned(200,
       [i \in 1..Len(ids) |->
          ConsultationView(ids[i], consultations[ids[i]].image_analyses,
             IF consultations[ids[i]].patient_id \in patients
               THEN PatientName(consultations[ids[i]].patient_id)
               ELSE <<"", "">>)])

\* get_consultation, the fallback (389-445): the records of the
\* image_analyses collection that name the consultation, as embedded entries.
SeparateImages(id) ==
  LET Names(rec) == rec.consultation_id = id
      separate_images == SelectSeq(image_analyses, Names)
  IN [i \in 1..Len(separate_images) |->
        [image_id |-> OidStr(separate_images[i].image_id),
         consultation_id |-> OidStr(separate_images[i].consultation_id),
         filename |-> separate_images[i].filename,
         diagnosis |-> separate_images[i].diagnosis,
         confidence |-> separate_images[i].confidence,
         probability |-> separate_images[i].probability]]

\* get_consultation (345-466): the document with its accessible embedded
\* images; without embedded images, with the records of the image_analyses
\* collection, where a record whose blob is missing gets url None, which
\* ConsultationResponse rejects (except Exception, 500).
GetConsultationResponse(id) ==
  IF id = 0 THEN Returned(400, <<>>)
  ELSE IF ~Exists(consultations, id) THEN Returned(404, <<>>)
  ELSE LET patient_name == IF consultations[id].patient_id \in patients
                             THEN PatientName(consultations[id].patient_id)
                             ELSE <<"Unknown", "">>
           embedded == consultations[id].image_analyses
       IN IF embedded # <<>>
            THEN Returned(200, <<ConsultationView(id, SelectSeq(embedded, Accessible),
                                                  patient_name)>>)
          ELSE IF \E i \in 1..Len(SeparateImages(id)) : ~Accessible(SeparateImages(id)[i])
            THEN Returned(500, <<>>)
          ELSE Returned(200, <<ConsultationView(id, SeparateImages(id), patient_name)>>)

\* generate_consultation_report (538-595): the consultation joined with its
\* patient ($lookup, $unwind), rendered with every embedded image.
ReportResponse(id) ==
  IF id = 0 THEN Returned(400, <<>>)
  ELSE IF Exists(consultations, id) /\ consultations[id].patient_id \in patients
    THEN Returned(200,
           <<ConsultationView(id, consultations[id].image_analyses,
                              PatientName(consultations[id].patient_id))>>)
  ELSE Returned(404, <<>>)

\* dashboard get_stats (13-128): the counts over the collection.
StatsResponse ==
  [totalConsultations |-> Cardinality(DOMAIN consultations),
   strokeConsultations |-> Cardinality({id \in DOMAIN consultations :
                                          consultations[id].diagnosis = "Stroke"})]

GetConsultations == GetConsultationsResponse.status = 200 /\ UNCHANGED vars

GetConsultation ==
  /\ \E id \in ConsultationIdInputs : GetConsultationResponse(id).status # 0
  /\ UNCHANGED vars

GenerateConsultationReport ==
  /\ \E id \in ConsultationIdInputs : ReportResponse(id).status # 0
  /\ UNCHANGED vars

GetStats == StatsResponse.totalConsultations >= 0 /\ UNCHANGED vars

\* ------------------------------------------------------ specification
Next ==
  \/ \E r \in DOMAIN req :
       \/ CreateStart(r, RequestInputs)
       \/ CreateFindPatient(r)
       \/ CreateInsert(r)
       \/ CreateReadAndPredict(r, Probs)
       \/ CreateUpload(r)
       \/ CreateUpdate(r)
       \/ CreateRollback(r)
  \/ \E d \in DOMAIN del :
       \/ DeleteStart(d)
       \/ DeleteFind(d)
       \/ DeleteBlob(d)
       \/ DeleteDoc(d)
       \/ DeleteReturn(d)
  \/ GetConsultations
  \/ GetConsultation
  \/ GenerateConsultationReport
  \/ GetStats

Spec == Init /\ [][Next]_vars

NextImages ==
  \/ Next
  \/ \E u \in DOMAIN upl :
       \/ UploadStart(u)
       \/ UploadFind(u)
       \/ UploadRead(u)
       \/ UploadPut(u)
       \/ UploadInsert(u)

\* The consultation endpoints together with upload_consultation_image.
SpecImages == Init /\ [][NextImages]_vars

NextUpdate ==
  \/ Next
  \/ \E u \in DOMAIN upd :
       \/ UpdateStart(u)
       \/ UpdateFind(u)
       \/ UpdateFindPatient(u)
       \/ UpdateSet(u)
       \/ UpdateReload(u)

\* The consultation endpoints together with update_consultation.
SpecUpdate == Init /\ [][NextUpdate]_vars

NextCancel ==
  \/ Next
  \/ \E r \in DOMAIN req : CreateCancel(r)

\* The consultation endpoints with requests that may be cancelled.
SpecCancel == Init /\ [][NextCancel]_vars

NextPatients ==
  \/ Next
  \/ DeletePatient

\* The consultation endpoints together with delete_patient.
SpecPatients == Init /\ [][NextPatients]_vars

\* Two create_consultation requests in flight at once: the requests that
\* pass the checks made before the first await, with one or two images, the
\* second of which may be empty.
ConcurrentCreators == {"c1", "c2"}

ConcurrentRequestInputs ==
  { q \in RequestInputs :
      /\ q.patient_id = "p1" /\ q.date = "2024-01-15"
      /\ Len(q.images) >= 1
      /\ q.images[1].filename = "a.png"
      /\ \A i \in 1..Len(q.images) : q.images[i].filename \in {"a.png", "e.png"} }

ConcurrentProbs == {3000, 7000}

InitConcurrent ==
  /\ patients = {"p1"}
  /\ consultations = <<>>
  /\ blobs = <<>>
  /\ nextConsultation = 1
  /\ nextBlob = 1
  /\ req = [r \in ConcurrentCreators |-> IdleReq]
  /\ del = [d \in Deleters |-> IdleDel]
  /\ lastDelete = NoDelete
  /\ image_analyses = <<>>
  /\ upl = [u \in Uploaders |-> IdleUpl]
  /\ upd = [u \in Updaters |-> IdleUpd]

NextConcurrent ==
  \E r \in DOMAIN req :
    \/ CreateStart(r, ConcurrentRequestInputs)
    \/ CreateFindPatient(r)
    \/ CreateInsert(r)
    \/ CreateReadAndPredict(r, ConcurrentProbs)
    \/ CreateUpload(r)
    \/ CreateUpdate(r)
    \/ CreateRollback(r)

\* Two concurrent create_consultation requests.
SpecConcurrent == InitConcurrent /\ [][NextConcurrent]_vars

\* One request with one valid image, scored with every probability of
\* [0, 1] in steps of 1/One.
ProbGrid == 0..One

PredictRequestInputs ==
  { q \in RequestInputs :
      /\ q.patient_id = "p1" /\ q.date = "2024-01-15"
      /\ Len(q.images) = 1 /\ q.images[1].filename = "a.png" }

NextPredict ==
  \E r \in DOMAIN req :
    \/ CreateStart(r, PredictRequestInputs)
    \/ CreateFindPatient(r)
    \/ CreateInsert(r)
    \/ CreateReadAndPredict(r, ProbGrid)
    \/ CreateUpload(r)
    \/ CreateUpdate(r)
    \/ CreateRollback(r)

\* create_consultation over the whole range of scorer outputs.
SpecPredict == Init /\ [][NextPredict]_vars

\* ------------------------------------------------------------- claims
Done(r) == req[r].pc = "done"

Writes(r) == req[r].inserts + req[r].updates + req[r].deletes + req[r].puts

Reported(r) == [status |-> req[r].status, detail |-> req[r].detail]

\* C1: a successful create_consultation with N >= 1 images answers with N
\* image entries in upload order (entry i carries file i and the scorer's
\* i-th output), the mean of the N outputs as probability, and Stroke exactly
\* when that mean is at least one half; the finalized document, while it is
\* stored, holds the same.
C1_SuccessfulCreate ==
  \A r \in DOMAIN req :
    (Done(r) /\ req[r].status = 201) =>
      LET n == Len(req[r].images)
          resp == req[r].response
          id == req[r].consultation_id
      IN /\ n >= 1
         /\ Len(req[r].outputs) = n
         /\ Len(resp.images) = n
         /\ \A i \in 1..n :
              /\ resp.images[i].filename = req[r].images[i].filename
              /\ resp.images[i].probability = req[r].outputs[i]
         /\ resp.probability.num * n * One = SumSeq(req[r].outputs) * resp.probability.den
         /\ (resp.diagnosis = "Stroke") <=> (2 * SumSeq(req[r].outputs) >= n * One)
         /\ resp.diagnosis \in {"Stroke", "Normal"}
         /\ Exists(consultations, id) =>
              /\ consultations[id].diagnosis = resp.diagnosis
              /\ consultations[id].probability = resp.probability
              /\ Len(consultations[id].image_analyses) = n
              /\ \A i \in 1..n :
                   consultations[id].image_analyses[i].probability = req[r].outputs[i]

\* C1 witness: two images scored 0.3 and 0.7, finalized as Stroke at 0.5.
C1_Witness ==
  \E r \in DOMAIN req :
    /\ Done(r) /\ req[r].status = 201
    /\ req[r].outputs = <<3000, 7000>>
    /\ req[r].response.diagnosis = "Stroke"
    /\ req[r].response.probability = [num |-> 10000, den |-> 20000]
    /\ Exists(consultations, req[r].consultation_id)

\* C2: when the scorer fails on the k-th image and the rollback delete
\* succeeds, the finished call leaves no Consultation document of the request
\* and no blob it wrote for images 1..k.
C2_ScorerFailureLeavesNothing ==
  \A r \in DOMAIN req :
    (Done(r) /\ req[r].scorerFailedAt >= 1 /\ ~req[r].rollbackFailed) =>
      /\ ~Exists(consultations, req[r].consultation_id)
      /\ \A b \in req[r].written : ~Exists(blobs, b)

\* C3: while a create_consultation is in flight, no read endpoint returns or
\* counts its placeholder document.
InFlight(r) == req[r].pc \in {"read", "upload", "update"}

Placeholder(id) ==
  /\ Exists(consultations, id)
  /\ consultations[id].diagnosis = "Processing..."

ShowsPlaceholder(response) ==
  \E i \in 1..Len(response.items) : response.items[i].diagnosis = "Processing..."

C3_ReadersNeverSeePlaceholder ==
  \A r \in DOMAIN req :
    InFlight(r) =>
      /\ ~ShowsPlaceholder(GetConsultationsResponse)
      /\ ~ShowsPlaceholder(GetConsultationResponse(req[r].consultation_id))
      /\ ~ShowsPlaceholder(ReportResponse(req[r].consultation_id))
      /\ StatsResponse.totalConsultations =
           Cardinality({id \in DOMAIN consultations : ~Placeholder(id)})

\* C4: after an invalid request (patient absent, no image, an image that is
\* not image/*, empty or over 10 MiB, at any position) the Metadata Store
\* holds the Consultation documents it held before: none of the request.
InvalidRequest(r) ==
  \/ ~PatientFound(Strip(req[r].patient_id))
  \/ req[r].images = <<>>
  \/ \E i \in 1..Len(req[r].images) :
       \/ ~StartsWithImage(req[r].images[i].content_type)
       \/ req[r].images[i].size = 0
       \/ req[r].images[i].size > MaxImageBytes

C4_InvalidRequestLeavesStore ==
  \A r \in DOMAIN req :
    (Done(r) /\ InvalidRequest(r)) => ~Exists(consultations, req[r].consultation_id)

\* C5: a create_consultation that ends with InvalidInput (400) has issued no
\* write to the Metadata Store or the Blob Store.
C5_InvalidInputWritesNothing ==
  \A r \in DOMAIN req : (Done(r) /\ req[r].status = 400) => Writes(r) = 0

\* C6: an otherwise valid request whose well-formed patient_id references no
\* Patient ends with NotFound (or with the lookup's own failure) and has
\* issued no write, whatever the number of images.
C6_MissingPatientNotFound ==
  \A r \in DOMAIN req :
    ( /\ Done(r)
      /\ ValidateInputs(req[r].patient_id, req[r].date, req[r].images) = NoError
      /\ Strip(req[r].patient_id) \notin patients ) =>
      /\ Writes(r) = 0
      /\ req[r].scores = 0
      /\ \/ Reported(r) = Err(404, "Patient not found", "")
         \/ Reported(r) = Unhandled

\* C6 witness: two valid images, patient p2 absent, NotFound reported.
C6_Witness ==
  \E r \in DOMAIN req :
    /\ Done(r) /\ req[r].status = 404
    /\ req[r].patient_id = "p2" /\ Len(req[r].images) = 2
    /\ req[r].reads = 1

\* C7: an image without filename or whose content type does not begin with
\* image/, at any position, ends the call with InvalidInput before any store
\* interaction, the patient lookup included.
C7_BadImageRejectedBeforeStores ==
  \A r \in DOMAIN req :
    (req[r].pc # "idle" /\ \E i \in 1..Len(req[r].images) : ~ImageOk(req[r].images[i])) =>
      /\ Done(r) /\ req[r].status = 400
      /\ req[r].reads = 0 /\ Writes(r) = 0 /\ req[r].scores = 0

\* C7 witness: the offending image is second, and the patient is absent too.
C7_Witness ==
  \E r \in DOMAIN req :
    /\ Done(r) /\ req[r].status = 400 /\ req[r].patient_id = "p2"
    /\ Len(req[r].images) = 2 /\ ImageOk(req[r].images[1])
    /\ req[r].images[2].content_type = ApplicationPdf

\* C8: when the rollback delete fails, the error reported is still the error
\* that triggered the rollback.
C8_RollbackFailureNotReported ==
  \A r \in DOMAIN req :
    (Done(r) /\ req[r].rollbackFailed) => Reported(r) = req[r].trigger

\* C9: when the finalizing update raises or modifies nothing, the call issues
\* the delete of the provisional Consultation, which is gone unless that
\* delete failed, and ends with a 500; it never ends with success.
C9_FailedFinalizeRollsBack ==
  \A r \in DOMAIN req :
    req[r].finalizeFailed =>
      /\ req[r].status # 201
      /\ req[r].response = NoResponse
      /\ Done(r) =>
           /\ req[r].status = 500
           /\ req[r].deletes >= 1
           /\ ~req[r].rollbackFailed => ~Exists(consultations, req[r].consultation_id)

\* C9 witness: update_one modified nothing and the call ended with that error.
C9_Witness ==
  \E r \in DOMAIN req :
    /\ Done(r) /\ req[r].finalizeFailed /\ ~req[r].rollbackFailed
    /\ Reported(r) = Err(500, "Failed to update consultation with results", "")

\* C10: a second delete_consultation on the same id, with nothing but the
\* caller's own steps since the first call ended (with success or NotFound),
\* ends with NotFound unless the store fails it, and no step of it changes
\* the Metadata Store.
C10_SecondDeleteNotFound ==
  \A d \in DOMAIN del :
    ( /\ del[d].pc = "done"
      /\ lastDelete.by = d
      /\ lastDelete.prevId = lastDelete.id
      /\ lastDelete.prevStatus \in {200, 404}
      /\ lastDelete.status # 500 ) => lastDelete.status = 404

C10_SecondDeleteKeepsStore ==
  \A d \in DOMAIN del :
    ( /\ lastDelete.by = d
      /\ lastDelete.status \in {200, 404}
      /\ del[d].pc \in {"idle", "find", "blobs", "delete"}
      /\ del'[d] # del[d]
      /\ del'[d].consultation_id = lastDelete.id ) => consultations' = consultations

C10_DeleteTwice == []C10_SecondDeleteNotFound /\ [][C10_SecondDeleteKeepsStore]_vars

\* C10 witness: the first call deleted the document, the second found none.
C10_Witness ==
  \E d \in DOMAIN del :
    /\ del[d].pc = "done"
    /\ lastDelete.by = d /\ lastDelete.prevId = lastDelete.id
    /\ lastDelete.prevStatus = 200 /\ lastDelete.status = 404

\* C11: delete_consultation on an id under which no Consultation exists when
\* the call arrives (an id given out before, or one no create_consultation is
\* given during the call) ends with NotFound, unless the lookup itself
\* fails, and issues no delete to the Blob Store or the Metadata Store.
C11_DeleteMissingNotFound ==
  \A d \in DOMAIN del :
    ( /\ del[d].pc # "idle"
      /\ del[d].consultation_id # 0
      /\ del[d].missing
      /\ (del[d].known \/ del[d].consultation_id >= nextConsultation) ) =>
      /\ del[d].pc \in {"find", "done"}
      /\ del[d].attempted = <<>>
      /\ del[d].docDeletes = 0
      /\ del[d].pc = "done" => del[d].status \in {404, 500}
      /\ (del[d].pc = "done" /\ del[d].status = 500) => del[d].images = <<>>

\* C11 witness: the id was never given out; the call ended with NotFound.
C11_Witness ==
  \E d \in DOMAIN del :
    /\ del[d].pc = "done" /\ del[d].status = 404
    /\ del[d].missing /\ ~del[d].known
    /\ del[d].consultation_id >= nextConsultation
    /\ del[d].docDeletes = 0

\* C12: a delete_consultation that found its Consultation calls fs.delete
\* for every entry of the embedded image list, in order, before it issues
\* delete_one; whichever of those calls raised, it issues delete_one and,
\* unless delete_one itself raises, reports success with the document gone.
BlobIds(images) == [i \in 1..Len(images) |-> ParseOid(images[i].image_id)]

C12_BestEffortBlobDeletes ==
  \A d \in DOMAIN del :
    /\ (del[d].pc = "delete" \/ del[d].docDeletes >= 1) =>
         del[d].attempted = BlobIds(del[d].images)
    /\ (del[d].pc = "done" /\ del[d].attempted # <<>>) =>
         /\ del[d].attempted = BlobIds(del[d].images)
         /\ del[d].docDeletes = 1
         /\ del[d].status \in {200, 500}
         /\ del[d].status = 200 => ~Exists(consultations, del[d].consultation_id)

\* C12 witness: two embedded images, the first fs.delete raised, the second
\* did not; the document is gone and success is reported.
C12_Witness ==
  \E d \in DOMAIN del :
    /\ del[d].pc = "done" /\ del[d].status = 200
    /\ Len(del[d].images) = 2 /\ del[d].failed = {1}
    /\ Exists(blobs, del[d].attempted[1]) /\ ~Exists(blobs, del[d].attempted[2])
    /\ ~Exists(consultations, del[d].consultation_id)

\* C13: when no request is in flight and no store call has raised, every
\* blob of the Blob Store is referenced by the embedded image list of a
\* stored Consultation.
Quiescent ==
  /\ \A r \in DOMAIN req : req[r].pc \in {"idle", "done"}
  /\ \A d \in DOMAIN del : del[d].pc \in {"idle", "done"}
  /\ \A u \in DOMAIN upl : upl[u].pc \in {"idle", "done"}
  /\ \A u \in DOMAIN upd : upd[u].pc \in {"idle", "done"}

StoreFailed(r) ==
  \/ req[r].rollbackFailed
  \/ req[r].trigger.detail[2] \in {"upload_from_stream", "update_one"}
  \/ Reported(r) \in {Unhandled, Err(500, "Database error", "insert_one")}

NoStoreFailure ==
  /\ \A r \in DOMAIN req : ~StoreFailed(r)
  /\ \A d \in DOMAIN del : ~del[d].faulted
  /\ \A u \in DOMAIN upl : upl[u].status # 500
  /\ \A u \in DOMAIN upd : upd[u].status # 500

Referenced(b) ==
  \E id \in DOMAIN consultations :
    \E i \in 1..Len(consultations[id].image_analyses) :
      consultations[id].image_analyses[i].image_id = OidStr(b)

C13_NoOrphanBlobs ==
  (Quiescent /\ NoStoreFailure) => \A b \in DOMAIN blobs : Referenced(b)

\* C14: every stored Consultation document is either the placeholder
\* (Processing, probability 0, no image) or finalized: at least one image,
\* probability the mean of its embedded images' probabilities, and diagnosis
\* Stroke exactly when that mean is at least one half, Normal otherwise.
IsPlaceholder(doc) ==
  /\ doc.diagnosis = "Processing..."
  /\ doc.probability = [num |-> 0, den |-> 1]
  /\ doc.image_analyses = <<>>

EmbeddedProbabilities(doc) ==
  [i \in 1..Len(doc.image_analyses) |-> doc.image_analyses[i].probability]

IsFinalized(doc) ==
  LET n == Len(doc.image_analyses)
      total == SumSeq(EmbeddedProbabilities(doc))
  IN /\ n >= 1
     /\ doc.probability.num * n * One = total * doc.probability.den
     /\ doc.diagnosis \in {"Stroke", "Normal"}
     /\ (doc.diagnosis = "Stroke") <=> (2 * total >= n * One)

C14_PlaceholderOrFinalized ==
  \A id \in DOMAIN consultations :
    IsPlaceholder(consultations[id]) \/ IsFinalized(consultations[id])

\* C14 witness: a finalized document with two images that update_consultation
\* has rewritten.
C14_Witness ==
  \E id \in DOMAIN consultations :
    /\ IsFinalized(consultations[id])
    /\ Len(consultations[id].image_analyses) = 2
    /\ consultations[id].date = "2024-02-01"
    /\ \E u \in DOMAIN upd : upd[u].pc = "done" /\ upd[u].status = 200

\* C15: once a create_consultation request has ended (by success, by a
\* scorer or store failure whose rollback delete did not itself fail, or by
\* cancellation at an await) the Consultation it inserted is not in the
\* Processing state.
C15_NoProcessingAfterEnd ==
  \A r \in DOMAIN req :
    (Done(r) /\ req[r].inserts = 1 /\ ~req[r].rollbackFailed) =>
      ~Placeholder(req[r].consultation_id)

\* C16: for a stored Consultation whose patient_id references no Patient,
\* get_consultation, get_consultations and generate_consultation_report each
\* succeed and return the consultation's own data.
PatientMissing(id) ==
  Exists(consultations, id) /\ consultations[id].patient_id \notin patients

ReturnsOwnData(response, id) ==
  /\ response.status = 200
  /\ \E i \in 1..Len(response.items) :
       /\ response.items[i].id = OidStr(id)
       /\ response.items[i].diagnosis = consultations[id].diagnosis
       /\ response.items[i].probability = consultations[id].probability

C16_MissingPatientReadsSucceed ==
  \A id \in DOMAIN consultations :
    PatientMissing(id) =>
      /\ ReturnsOwnData(GetConsultationResponse(id), id)
      /\ ReturnsOwnData(GetConsultationsResponse, id)
      /\ ReturnsOwnData(ReportResponse(id), id)

\* C17: get_consultation on a Consultation with embedded images, some of
\* whose blobs are missing from the Blob Store, succeeds, and the images it
\* returns are the embedded entries whose blob is stored, each once, in
\* their stored order.
StoredPositions(id) ==
  {i \in 1..Len(consultations[id].image_analyses) :
     Exists(blobs, ParseOid(consultations[id].image_analyses[i].image_id))}

Kth(S, k) == CHOOSE i \in S : Cardinality({j \in S : j < i}) = k - 1

C17_InaccessibleBlobsOmitted ==
  \A id \in DOMAIN consultations :
    consultations[id].image_analyses # <<>> =>
      LET response == GetConsultationResponse(id)
          embedded == consultations[id].image_analyses
          stored == StoredPositions(id)
      IN /\ response.status = 200
         /\ Len(response.items) = 1
         /\ response.items[1].diagnosis = consultations[id].diagnosis
         /\ Len(response.items[1].images) = Cardinality(stored)
         /\ \A k \in 1..Cardinality(stored) :
              /\ response.items[1].images[k].image_id = embedded[Kth(stored, k)].image_id
              /\ response.items[1].images[k].filename = embedded[Kth(stored, k)].filename
              /\ response.items[1].images[k].probability =
                   embedded[Kth(stored, k)].probability

\* C17 witness: two embedded images, the blob of the first is gone, the
\* read returns the second alone.
C17_Witness ==
  \E id \in DOMAIN consultations :
    /\ Len(consultations[id].image_analyses) = 2
    /\ StoredPositions(id) = {2}
    /\ GetConsultationResponse(id).status = 200
    /\ Len(GetConsultationResponse(id).items[1].images) = 1
    /\ GetConsultationResponse(id).items[1].images[1].image_id =
         consultations[id].image_analyses[2].image_id

\* C18: image analyses are stored only embedded in their Consultation: the
\* separate image_analyses collection never holds a record, so no stored
\* image analysis exists apart from a parent document.
C18_EmbeddedOnly ==
  /\ image_analyses = <<>>
  /\ \A i \in 1..Len(image_analyses) :
       Exists(consultations, image_analyses[i].consultation_id)

\* C19: concurrent create_consultation requests do not interfere.  Requests
\* that inserted hold distinct ids; a finalized document holds exactly the
\* analyses of the request that inserted it (its files, its scorer outputs,
\* its blobs, in order) and the aggregate of its outputs; and a step of one
\* request leaves every document but its own as it is.
Inserted(r) == req[r].consultation_id # 0

OwnDocument(r) ==
  LET id == req[r].consultation_id
      doc == consultations[id]
      n == Len(doc.image_analyses)
  IN (Inserted(r) /\ Exists(consultations, id)) =>
       \/ IsPlaceholder(doc)
       \/ /\ n = Len(req[r].images)
          /\ \A i \in 1..n :
               /\ doc.image_analyses[i].filename = req[r].images[i].filename
               /\ doc.image_analyses[i].probability = req[r].outputs[i]
               /\ doc.image_analyses[i].consultation_id = OidStr(id)
               /\ ParseOid(doc.image_analyses[i].image_id) \in req[r].written
          /\ doc.probability.num * n * One = SumSeq(req[r].outputs) * doc.probability.den
          /\ (doc.diagnosis = "Stroke") <=> (2 * SumSeq(req[r].outputs) >= n * One)
          /\ doc.diagnosis \in {"Stroke", "Normal"}

C19_OwnDocuments ==
  /\ \A r1, r2 \in DOMAIN req :
       (r1 # r2 /\ Inserted(r1) /\ Inserted(r2)) =>
         /\ req[r1].consultation_id # req[r2].consultation_id
         /\ req[r1].written \cap req[r2].written = {}
  /\ \A r \in DOMAIN req : OwnDocument(r)

C19_OthersUntouched ==
  \A r \in DOMAIN req :
    req'[r] # req[r] =>
      \A id \in DOMAIN consultations :
        id # req'[r].consultation_id =>
          /\ Exists(consultations', id)
          /\ consultations'[id] = consultations[id]

C19_ConcurrentCreatesIndependent ==
  []C19_OwnDocuments /\ [][C19_OthersUntouched]_vars

\* C19 witness: c1 inserted first, c2 uploaded first; c2 was rolled back
\* after the scorer failed on its second image, c1 finalized its document.
C19_Witness ==
  /\ "c2" \in DOMAIN req
  /\ Done("c1") /\ req["c1"].status = 201
  /\ req["c1"].consultation_id = 1 /\ req["c1"].written = {2}
  /\ Done("c2") /\ req["c2"].scorerFailedAt = 2
  /\ req["c2"].consultation_id = 2 /\ req["c2"].written = {1}
  /\ Exists(consultations, 1) /\ ~Exists(consultations, 2)
  /\ ~IsPlaceholder(consultations[1])

\* C20 as stated: the per-image label is Stroke exactly when the scorer's
\* probability is at least 0.5, in the prediction, in the accumulated
\* analyses and in the stored document.
LabelCutAt(a, threshold) ==
  /\ a.diagnosis \in {"Stroke", "Normal"}
  /\ (a.diagnosis = "Stroke") <=> (a.probability >= threshold)

LabelsCutAt(threshold) ==
  /\ \A r \in DOMAIN req :
       /\ req[r].pc = "upload" => LabelCutAt(req[r].prediction, threshold)
       /\ \A i \in 1..Len(req[r].image_analyses) :
            LabelCutAt(req[r].image_analyses[i], threshold)
       /\ \A i \in 1..Len(req[r].response.images) :
            LabelCutAt(req[r].response.images[i], threshold)
  /\ \A id \in DOMAIN consultations :
       \A i \in 1..Len(consultations[id].image_analyses) :
         LabelCutAt(consultations[id].image_analyses[i], threshold)

C20_LabelCutAtHalf == LabelsCutAt(Half)

\* C20 amended: the per-image label is Stroke exactly when the scorer's
\* probability is at least OPTIMAL_THRESHOLD (0.4469), Normal otherwise, for
\* every probability in [0, 1].
C20_LabelCutAtOptimalThreshold == LabelsCutAt(OPTIMAL_THRESHOLD)

\* C20 witness: an image scored 0.47, below one half, stored as Stroke.
C20_Witness ==
  \E id \in DOMAIN consultations :
    /\ Len(consultations[id].image_analyses) = 1
    /\ consultations[id].image_analyses[1].probability = 4700
    /\ consultations[id].image_analyses[1].diagnosis = "Stroke"
    /\ consultations[id].diagnosis = "Normal"

\* C21: a create_consultation call that has ended issued one insert and one
\* update and no delete when it succeeded, one insert and one delete when it
\* failed after the provisional insert, and no write when it failed
\* validation (400); it wrote one blob per image when it succeeded, and
\* called the scorer and the blob write at most once per image.
C21_WriteCounts ==
  \A r \in DOMAIN req :
    (Done(r) /\ ~req[r].cancelled) =>
      /\ req[r].status = 201 =>
           /\ req[r].inserts = 1 /\ req[r].updates = 1 /\ req[r].deletes = 0
           /\ req[r].puts = Len(req[r].images)
           /\ Cardinality(req[r].written) = Len(req[r].images)
           /\ req[r].scores = Len(req[r].images)
      /\ (req[r].status # 201 /\ req[r].consultation_id # 0) =>
           /\ req[r].inserts = 1 /\ req[r].deletes = 1
      /\ req[r].status = 400 => Writes(r) = 0
      /\ req[r].scores <= Len(req[r].images)
      /\ req[r].puts <= Len(req[r].images)
      /\ req[r].inserts <= 1 /\ req[r].updates <= 1

\* C22: once the processing of image k has failed (size check, scorer or
\* blob write), the request calls the scorer for no image after k, writes no
\* blob for image k or any later one, and goes on to no finalizing update.
C22_NothingAfterFailedImage ==
  \A r \in DOMAIN req :
    req[r].failedAt >= 1 =>
      /\ \A i \in 1..Len(req[r].log) :
           /\ req[r].log[i][1] \in {"score", "put", "append"} =>
                req[r].log[i][2] <= req[r].failedAt
           /\ req[r].log[i][1] # "update"
      /\ req[r].scores <= req[r].failedAt
      /\ req[r].puts <= req[r].failedAt
      /\ Cardinality(req[r].written) = req[r].failedAt - 1
      /\ Len(req[r].image_analyses) = req[r].failedAt - 1
      /\ req[r].status # 201

\* C22 witness: the blob write of the first of two images failed; the call
\* ended with one scorer call, one blob write attempt and no blob.
C22_Witness ==
  \E r \in DOMAIN req :
    /\ Done(r) /\ req[r].failedAt = 1 /\ Len(req[r].images) = 2
    /\ req[r].scorerFailedAt = 0
    /\ req[r].scores = 1 /\ req[r].puts = 1 /\ req[r].written = {}

\* C23: the store and scorer calls of one request are issued strictly in
\* sequence: the provisional insert, then for each image in input order its
\* scorer call, its blob write and its analysis record, then the finalizing
\* update; a successful call has issued all of them.
RECURSIVE PerImageSteps(_, _)
PerImageSteps(i, n) ==
  IF i > n THEN <<>>
  ELSE <<<<"score", i>>, <<"put", i>>, <<"append", i>>>> \o PerImageSteps(i + 1, n)

SequentialSteps(n) == <<<<"insert", 0>>>> \o PerImageSteps(1, n) \o <<<<"update", 0>>>>

IsPrefix(s, t) == Len(s) <= Len(t) /\ SubSeq(t, 1, Len(s)) = s

C23_StrictlySequential ==
  \A r \in DOMAIN req :
    /\ IsPrefix(req[r].log, SequentialSteps(Len(req[r].images)))
    /\ req[r].status = 201 => req[r].log = SequentialSteps(Len(req[r].images))

\* C23 witness: a successful call with two images and its eight steps.
C23_Witness ==
  \E r \in DOMAIN req :
    /\ Done(r) /\ req[r].status = 201 /\ Len(req[r].images) = 2
    /\ Len(req[r].log) = 8
    /\ req[r].log[5] = <<"score", 2>>

\* C24: no step of create_consultation or of delete_consultation, in a call
\* that succeeds or fails, changes the set of Patient documents.
C24_StepLeavesPatients ==
  /\ \A r \in DOMAIN req : req'[r] # req[r] => patients' = patients
  /\ \A d \in DOMAIN del : del'[d] # del[d] => patients' = patients

C24_PatientsUntouched == [][C24_StepLeavesPatients]_vars

\* C24 witness: a consultation was created and deleted again, and the
\* patient it was created for is still stored.
C24_Witness ==
  \E r \in DOMAIN req, d \in DOMAIN del :
    /\ Done(r) /\ req[r].status = 201
    /\ del[d].pc = "done" /\ del[d].status = 200
    /\ del[d].consultation_id = req[r].consultation_id
    /\ Strip(req[r].patient_id) \in patients

\* The blob a step of request r stored: the key the Blob Store gained.
StoredByStep(r) == DOMAIN blobs' \ DOMAIN blobs

\* The step of request r that appends an analysis record stored exactly one
\* blob; the blob's metadata names r's provisional consultation and the
\* record's image_id is the id the store gave that blob.
C25_AppendNamesStoredBlob ==
  \A r \in DOMAIN req :
    Len(req'[r].image_analyses) = Len(req[r].image_analyses) + 1 =>
      LET entry == req'[r].image_analyses[Len(req'[r].image_analyses)]
      IN /\ Cardinality(StoredByStep(r)) = 1
         /\ \A b \in StoredByStep(r) :
              /\ blobs'[b].consultation_id = OidStr(req[r].consultation_id)
              /\ entry.image_id = OidStr(b)
              /\ entry.consultation_id = OidStr(req[r].consultation_id)
              /\ req'[r].written = req[r].written \cup {b}

\* The step that returns 201: every image of the response carries its
\* image_id as public id and in its URL, and the image_id is the key of a
\* stored blob whose metadata names the returned consultation.
C25_ReturnedImagesResolve ==
  \A r \in DOMAIN req :
    (req[r].pc # "done" /\ req'[r].pc = "done" /\ req'[r].status = 201) =>
      LET res == req'[r].response
      IN /\ Len(res.images) = Len(req'[r].images)
         /\ \A i \in 1..Len(res.images) :
              LET img == res.images[i]
              IN /\ img.id = img.image_id
                 /\ img.url = <<"/api/images/", img.image_id>>
                 /\ ParseOid(img.image_id) \in DOMAIN blobs'
                 /\ ParseOid(img.image_id) \in req'[r].written
                 /\ blobs'[ParseOid(img.image_id)].consultation_id = res.id

\* Every stored blob a request wrote names that request's consultation.
C25_WrittenBlobsOwned ==
  \A r \in DOMAIN req : \A b \in req[r].written \cap DOMAIN blobs :
    blobs[b].consultation_id = OidStr(req[r].consultation_id)

\* C25: every blob written by create_consultation carries the id of the
\* request's provisional consultation in its metadata; the image_id of the
\* corresponding analysis record, also returned as the image's public id and
\* in its URL, is the id the Blob Store returned for the blob; at a
\* successful return each image_id of the result is a stored blob owned by
\* the returned consultation id.
C25_BlobOwnership ==
  /\ []C25_WrittenBlobsOwned
  /\ [][C25_AppendNamesStoredBlob /\ C25_ReturnedImagesResolve]_vars

\* C25 witness: a create of two images has returned 201 and both image ids
\* of its response are stored blobs that name the returned consultation.
C25_Witness ==
  \E r \in DOMAIN req :
    /\ Done(r) /\ req[r].status = 201
    /\ Len(req[r].response.images) = 2
    /\ \A i \in 1..2 :
         LET b == ParseOid(req[r].response.images[i].image_id)
         IN /\ b \in DOMAIN blobs
            /\ b \in req[r].written
            /\ blobs[b].consultation_id = req[r].response.id
    /\ req[r].response.images[1].image_id # req[r].response.images[2].image_id

ImageData(img) ==
  [image_id |-> img.image_id, filename |-> img.filename,
   diagnosis |-> img.diagnosis, confidence |-> img.confidence,
   probability |-> img.probability]

ImagesData(images) == [i \in 1..Len(images) |-> ImageData(images[i])]

\* get_consultation answers 200 with the data of the create response res.
ReadsBack(got, res) ==
  /\ got.status = 200
  /\ Len(got.items) = 1
  /\ got.items[1].id = res.id
  /\ got.items[1].patient_id = res.patient_id
  /\ got.items[1].diagnosis = res.diagnosis
  /\ got.items[1].probability = res.probability
  /\ ImagesData(got.items[1].images) = ImagesData(res.images)

C27_ReadAtReturn ==
  \A r \in DOMAIN req :
    (req[r].pc # "done" /\ req'[r].pc = "done" /\ req'[r].status = 201) =>
      /\ req'[r].response.id = OidStr(req[r].consultation_id)
      /\ ReadsBack(GetConsultationResponse(req[r].consultation_id),
                   req[r].response)'

\* C27: in the state a successful create_consultation returns in,
\* get_consultation on the returned id yields the patient_id, diagnosis and
\* probability of the create response and the same images (ids, filenames,
\* diagnoses, confidences, probabilities) in the same order.
C27_ReadAfterCreate == [][C27_ReadAtReturn]_vars

\* C27 witness: a create of two images has returned 201 and a read of the
\* returned id gives back the response's data with both images.
C27_Witness ==
  \E r \in DOMAIN req :
    /\ Done(r) /\ req[r].status = 201
    /\ Len(req[r].response.images) = 2
    /\ ReadsBack(GetConsultationResponse(req[r].consultation_id),
                 req[r].response)
    /\ Len(GetConsultationResponse(req[r].consultation_id).items[1].images) = 2

\* The fields update_consultation is not to touch.
Results(doc) ==
  [diagnosis |-> doc.diagnosis, probability |-> doc.probability,
   image_analyses |-> doc.image_analyses]

\* A step of update request u keeps the set of documents, every document
\* other than its target, and the results of its target.
C28_StepKeepsResults ==
  \A u \in DOMAIN upd :
    upd'[u] # upd[u] =>
      /\ DOMAIN consultations' = DOMAIN consultations
      /\ \A id \in DOMAIN consultations :
           /\ Results(consultations'[id]) = Results(consultations[id])
           /\ id # upd'[u].consultation_id =>
                consultations'[id] = consultations[id]
      /\ consultations' # consultations =>
           /\ upd[u].pc = "update"
           /\ consultations'[upd[u].consultation_id] =
                [consultations[upd[u].consultation_id] EXCEPT
                   !.patient_id = Strip(upd[u].patient_id),
                   !.date = Strip(upd[u].date),
                   !.notes = upd[u].notes]
      /\ blobs' = blobs /\ patients' = patients

\* A lookup that finds no consultation, or no patient, ends the call with
\* 404 (with 500 when the lookup itself failed).
C28_StepMissingIsNotFound ==
  \A u \in DOMAIN upd :
    /\ (upd[u].pc = "find" /\ ~Exists(consultations, upd[u].consultation_id)) =>
         (upd'[u] # upd[u] =>
            upd'[u].pc = "done" /\ upd'[u].status \in {404, 500})
    /\ (upd[u].pc = "find_patient" /\ Strip(upd[u].patient_id) \notin patients) =>
         (upd'[u] # upd[u] =>
            upd'[u].pc = "done" /\ upd'[u].status \in {404, 500})

\* A call that ended with 404 applied its $set to no document.
C28_NotFoundWroteNothing ==
  \A u \in DOMAIN upd :
    (upd[u].pc = "done" /\ upd[u].status = 404) => upd[u].wroteOver = ""

\* C28: update_consultation changes only patient_id, date and notes of its
\* target and leaves the target's diagnosis, probability and embedded images
\* as they are, also interleaved with the create_consultation still
\* processing the target; when the consultation or the new patient does not
\* exist the call ends with 404 and has written nothing.
C28_UpdateFrame ==
  /\ []C28_NotFoundWroteNothing
  /\ [][C28_StepKeepsResults /\ C28_StepMissingIsNotFound]_vars

\* C28 witness: an update wrote its date over the placeholder of a create
\* still in progress; the create went on to return 201, and the document
\* holds the update's date with the create's results.
C28_Witness ==
  \E u \in DOMAIN upd, r \in DOMAIN req :
    /\ upd[u].pc = "done" /\ upd[u].status = 200
    /\ upd[u].wroteOver = "Processing..."
    /\ upd[u].consultation_id = req[r].consultation_id
    /\ Done(r) /\ req[r].status = 201
    /\ Exists(consultations, req[r].consultation_id)
    /\ LET doc == consultations[req[r].consultation_id]
       IN /\ doc.date = Strip(upd[u].date)
          /\ doc.date # Strip(req[r].date)
          /\ doc.diagnosis = req[r].response.diagnosis
          /\ doc.probability = req[r].response.probability
          /\ doc.image_analyses = req[r].image_analyses

\* C29: when delete_consultation removed a consultation's document while the
\* create_consultation that inserted it was still processing images, the
\* create does not return success, the document does not come back, and once
\* both calls have completed neither the document nor any blob the create
\* wrote is in the stores.
C29_DeleteDuringCreate ==
  \A d \in DOMAIN del : \A r \in del[d].removedUnder :
    /\ req[r].status # 201
    /\ ~Exists(consultations, req[r].consultation_id)
    /\ (Done(r) /\ del[d].pc \in {"idle", "done"}) =>
         req[r].written \cap DOMAIN blobs = {}

\* C30: whenever no call is in progress, every stored Consultation has a
\* patient_id that is the id of a stored Patient.
C30_PatientReferencesResolve ==
  Quiescent =>
    \A id \in DOMAIN consultations : consultations[id].patient_id \in patients

====
